---- MODULE Spec2Model ----
(***************************************************************************)
(* The cart drawer controller of assets/cart.js (class CartDrawer): the    *)
(* drawer's open/closed state with its scroll lock and focus hand-over,    *)
(* the request-in-flight guard of the mutating operations, the requests    *)
(* in flight against the cart HTTP boundary, and the rendering of the      *)
(* cart a response carries.                                                *)
(*                                                                         *)
(* Execution is single-threaded and event-driven: one action of this       *)
(* module is one event handler, or one stretch of an async method between  *)
(* two awaits (the suspension points are the network boundaries).          *)
(***************************************************************************)
EXTENDS Integers, Sequences, FiniteSets, TLC

(***************************************************************************)
(* Bounds of the model.                                                    *)
(***************************************************************************)
\* Units of one variant the shop can sell: an add or change beyond it is
\* refused by the boundary, which keeps the quantities finite.
MaxStock == 2
\* Requests outstanding at the boundary at one time.
MaxInFlight == 2
\* The page can be scrolled to the offsets 0..MaxScroll.
MaxScroll == 1
\* Toasts in the document at one time.
MaxToasts == 2
\* formatMoney is called with the amounts 0..MaxCents (minor units).
MaxCents == 1100

(***************************************************************************)
(* Sample data of the boundary: the variant on sale, the key of its line   *)
(* and the unit price (minor units) of a line.                             *)
(***************************************************************************)
Variants == {"v1"}
KeyOf(v) == IF v = "v1" THEN "k1" ELSE "k2"
Keys == {KeyOf(v) : v \in Variants}
Price(key) == IF key = "k1" THEN 1050 ELSE 2000
Slots == 1..MaxInFlight
Offsets == 0..MaxScroll
Quantities == 1..MaxStock
Amounts == 0..MaxCents
ToastSlots == 1..MaxToasts

(***************************************************************************)
(* JavaScript values a promise resolves to or an event carries.            *)
(***************************************************************************)
JUndefined == <<"undefined">>
JNull == <<"null">>
JNone == <<"none">>
JCart(c) == <<"cart", c>>
\* e.defaultPrevented after the keydown listeners ran
JPrevented(b) == <<"defaultPrevented", b>>
\* the string formatMoney returned for the amount cents
JMoney(cents, s) == <<"money", cents, s>>

(***************************************************************************)
(* DOM elements that can hold focus, as <<region, name>>.  The controls    *)
(* of a rendered line are <<key, role>>.  Detached stands for a node that  *)
(* was removed from the document and is still referenced.                  *)
(***************************************************************************)
Body == <<"doc", "body">>
Toggle == <<"doc", "toggle">>
PageEl == <<"doc", "page">>
Root == <<"drawer", "root">>
CloseBtn == <<"drawer", "close">>
NullEl == <<"none", "null">>
Detached == <<"none", "detached">>
DrawerKinds == {"absent", "close"}
\* The drawers of the focus trap: with the close button, or with no control
\* of its own.
FocusDrawerKinds == {"bare", "close"}

VARIABLES
    drawer,             \* which #cart-drawer markup the page supplies
    isOpen,             \* this.isOpen
    isUpdating,         \* this.isUpdating, the request-in-flight flag
    loading,            \* class "loading" on the drawer
    lastActiveElement,  \* this.lastActiveElement
    focusAtOpening,     \* history: document.activeElement when the drawer last
                        \* went from closed to open
    offsetAtOpening,    \* history: the page offset when the drawer last went
                        \* from closed to open
    scrollPosition,     \* this.scrollPosition
    scrollY,            \* window.scrollY
    bodyStyle,          \* document.body.style: position, top, width
    activeElement,      \* document.activeElement
    pagePresent,        \* PageEl is in the document
    rendered,           \* badges, subtotal, empty/content regions, items list
    lastCart,           \* the cart of the latest successful response rendered
    server,             \* the cart held by the boundary: lines <<key, quantity>>
    net,                \* the requests in flight, by slot
    toasts,             \* the toasts of showError, each with its phase
    submitBtn,          \* the submit control of the add-to-cart form
    awaiting,           \* the slot of the addItem a handleAddToCart awaits
    step                \* what the latest step gave out

uiVars == <<isOpen, lastActiveElement, focusAtOpening, offsetAtOpening,
            scrollPosition, scrollY, bodyStyle, activeElement>>
guardVars == <<isUpdating, loading>>
formVars == <<submitBtn, awaiting>>
vars == <<drawer, isOpen, isUpdating, loading, lastActiveElement,
          focusAtOpening, offsetAtOpening, scrollPosition, scrollY,
          bodyStyle, activeElement,
          pagePresent, rendered, lastCart, server, net, toasts, submitBtn,
          awaiting, step>>

(***************************************************************************)
(* The Cart JSON of the boundary (spec section 3).                         *)
(***************************************************************************)
LineItem(l) ==
    [key |-> l[1], quantity |-> l[2], final_line_price |-> l[2] * Price(l[1])]

RECURSIVE SumQuantity(_)
SumQuantity(lines) ==
    IF lines = <<>> THEN 0 ELSE Head(lines)[2] + SumQuantity(Tail(lines))

RECURSIVE SumPrice(_)
SumPrice(lines) ==
    IF lines = <<>> THEN 0
    ELSE Head(lines)[2] * Price(Head(lines)[1]) + SumPrice(Tail(lines))

CartJson(lines) ==
    [item_count |-> SumQuantity(lines),
     total_price |-> SumPrice(lines),
     items |-> [i \in 1..Len(lines) |-> LineItem(lines[i])]]

(***************************************************************************)
(* formatMoney: (cents / 100).toFixed(2) behind a "$".                     *)
(***************************************************************************)
\* (mutant: the fraction is written without its leading zero)
Pad2Bare(n) == ToString(n)

Pad2(n) == IF n < 10 THEN "0" \o ToString(n) ELSE ToString(n)

ToFixed2(cents) ==
    IF cents < 0
    THEN "-" \o ToString((0 - cents) \div 100) \o "." \o Pad2((0 - cents) % 100)
    ELSE ToString(cents \div 100) \o "." \o Pad2(cents % 100)

FormatMoney(cents) == "$" \o ToFixed2(cents)

(***************************************************************************)
(* renderItem and renderCart: the parts of the panel written from a cart.  *)
(***************************************************************************)
RenderItem(item) ==
    [key |-> item.key,
     value |-> ToString(item.quantity),
     price |-> FormatMoney(item.final_line_price)]

Markup ==
    [count |-> "", countHidden |-> FALSE, subtotal |-> "",
     emptyShown |-> FALSE, contentShown |-> FALSE, items |-> <<>>]

\* (mutant: the subtotal is not written)
RenderCartKeepsSubtotal(cart) ==
    [count |-> ToString(cart.item_count),
     countHidden |-> ~(cart.item_count > 0),
     subtotal |-> rendered.subtotal,
     emptyShown |-> (cart.item_count = 0),
     contentShown |-> ~(cart.item_count = 0),
     items |-> [i \in 1..Len(cart.items) |-> RenderItem(cart.items[i])]]

\* (mutant: the new blocks are appended to the old list)
RenderCartAppends(cart) ==
    [count |-> ToString(cart.item_count),
     countHidden |-> ~(cart.item_count > 0),
     subtotal |-> FormatMoney(cart.total_price),
     emptyShown |-> (cart.item_count = 0),
     contentShown |-> ~(cart.item_count = 0),
     items |-> rendered.items \o
               [i \in 1..Len(cart.items) |-> RenderItem(cart.items[i])]]

RenderCart(cart) ==
    [count |-> ToString(cart.item_count),
     countHidden |-> ~(cart.item_count > 0),
     subtotal |-> FormatMoney(cart.total_price),
     emptyShown |-> (cart.item_count = 0),
     contentShown |-> ~(cart.item_count = 0),
     items |-> [i \in 1..Len(cart.items) |-> RenderItem(cart.items[i])]]

(***************************************************************************)
(* Focus.  getFocusableElements lists the focusable elements inside the    *)
(* drawer in document order: the close button when the markup has one,     *)
(* then the controls of every rendered line (renderItem: title link,       *)
(* decrement, quantity input, increment, remove).                          *)
(***************************************************************************)
ItemControls(key) ==
    <<  <<key, "link">>, <<key, "dec">>, <<key, "input">>, <<key, "inc">>,
        <<key, "remove">>  >>

RECURSIVE ControlsOf(_)
ControlsOf(items) ==
    IF items = <<>> THEN <<>>
    ELSE ItemControls(Head(items).key) \o ControlsOf(Tail(items))

IsItemControl(e) == e[1] \in Keys

GetFocusableElements(items) ==
    IF drawer = "absent" THEN <<>>
    ELSE (IF drawer = "close" THEN <<CloseBtn>> ELSE <<>>) \o ControlsOf(items)

\* document.contains(e)
DocumentContains(e) ==
    \/ e \in {Body, Toggle}
    \/ e = PageEl /\ pagePresent
    \/ e = Root /\ drawer # "absent"
    \/ e = CloseBtn /\ drawer = "close"
    \/ IsItemControl(e) /\ \E i \in 1..Len(rendered.items) : rendered.items[i].key = e[1]

\* target.focus(): the body is not focusable, so focusing it moves nothing.
FocusOn(target, active) == IF target = Body THEN active ELSE target

\* itemsContainer.innerHTML = ...: every control of the old list leaves the
\* document; the focus falls back to the body and a reference kept to an
\* old control is one to a detached node.
ActiveAfterRender(active) == IF IsItemControl(active) THEN Body ELSE active
LastAfterRender(last) == IF IsItemControl(last) THEN Detached ELSE last

(***************************************************************************)
(* Scroll lock.  While the body is pinned (position: fixed) the document   *)
(* has nothing to scroll and window.scrollY reads 0; the page is shown at  *)
(* the offset of the body's top.                                           *)
(***************************************************************************)
Unpinned == [position |-> "", top |-> "", width |-> ""]
Pinned(y) == [position |-> "fixed", top |-> "-" \o ToString(y) \o "px", width |-> "100%"]

LockScroll ==
    /\ scrollPosition' = scrollY
    /\ bodyStyle' = Pinned(scrollY)
    /\ scrollY' = 0

\* (mutant: window.scrollTo is not called)
UnlockWithoutScrollTo ==
    /\ bodyStyle' = Unpinned
    /\ UNCHANGED <<scrollY, scrollPosition>>

UnlockScroll ==
    /\ bodyStyle' = Unpinned
    /\ scrollY' = scrollPosition
    /\ UNCHANGED scrollPosition

(***************************************************************************)
(* open() and close(), called with the document as it is at the call:      *)
(* the rendered lines, document.activeElement, this.lastActiveElement.     *)
(***************************************************************************)
FirstFocusable(items) ==
    IF GetFocusableElements(items) = <<>> THEN Root
    ELSE Head(GetFocusableElements(items))

OpenFrom(items, active, last, atOpening) ==
    IF drawer = "absent"
    THEN /\ activeElement' = active
         /\ lastActiveElement' = last
         /\ focusAtOpening' = atOpening
         /\ UNCHANGED offsetAtOpening
         /\ UNCHANGED <<isOpen, scrollPosition, scrollY, bodyStyle>>
    ELSE /\ lastActiveElement' = active
         /\ focusAtOpening' = IF isOpen THEN atOpening ELSE active
         /\ offsetAtOpening' = IF isOpen THEN offsetAtOpening ELSE scrollY
         /\ isOpen' = TRUE
         /\ LockScroll
         /\ activeElement' = FocusOn(FirstFocusable(items), active)

CloseTarget ==
    IF lastActiveElement # NullEl /\ DocumentContains(lastActiveElement)
    THEN lastActiveElement
    ELSE Toggle

CloseNow ==
    IF drawer = "absent"
    THEN UNCHANGED uiVars
    ELSE /\ isOpen' = FALSE
         /\ UnlockScroll
         /\ activeElement' = FocusOn(CloseTarget, activeElement)
         /\ UNCHANGED <<lastActiveElement, focusAtOpening, offsetAtOpening>>

\* (mutant: open() on an Open drawer closes it)
OpenNowToggles ==
    IF isOpen THEN CloseNow
    ELSE OpenFrom(rendered.items, activeElement, lastActiveElement, focusAtOpening)

OpenNow == OpenFrom(rendered.items, activeElement, lastActiveElement, focusAtOpening)

\* What a step gives out: the value the promise of a call settles to, the
\* events dispatched on the document, the toasts shown.
Gave(ret, events, shown) == [ret |-> ret, events |-> events, toasts |-> shown]

Quiet == Gave(JNone, <<>>, <<>>)

\* The CustomEvents dispatched on the document, each with its detail and
\* with what a listener finds when it runs: the panel and the drawer's state.
ItemAdded(variantId, quantity, cart, panel, open) ==
    [type |-> "cart:item-added", variantId |-> variantId, quantity |-> quantity,
     cart |-> cart, panel |-> panel, open |-> open]

CartUpdated(cart, panel, open) ==
    [type |-> "cart:updated", variantId |-> "", quantity |-> 0,
     cart |-> cart, panel |-> panel, open |-> open]

restUI == <<drawer, isUpdating, loading, pagePresent, rendered, lastCart, server,
            net, toasts, submitBtn, awaiting>>

Open ==
    /\ OpenNow
    /\ step' = Quiet
    /\ UNCHANGED restUI

\* (mutant: close() gives up the call in flight: flag and indicator cleared)
CloseClearsFlag ==
    /\ CloseNow
    /\ step' = Quiet
    /\ isUpdating' = FALSE
    /\ loading' = FALSE
    /\ UNCHANGED <<drawer, pagePresent, rendered, lastCart, server, net, toasts,
                   submitBtn, awaiting>>

Close ==
    /\ CloseNow
    /\ step' = Quiet
    /\ UNCHANGED restUI

Toggle_ ==
    /\ IF isOpen THEN CloseNow ELSE OpenNow
    /\ step' = Quiet
    /\ UNCHANGED restUI

\* (mutant: the listener does not test this.isOpen)
EscapeAlwaysCloses ==
    /\ CloseNow
    /\ step' = Quiet
    /\ UNCHANGED restUI

\* keydown on the document
Escape ==
    /\ IF isOpen THEN CloseNow ELSE UNCHANGED uiVars
    /\ step' = Quiet
    /\ UNCHANGED restUI

\* click on #cart-overlay
OverlayClick ==
    /\ drawer # "absent"
    /\ CloseNow
    /\ step' = Quiet
    /\ UNCHANGED restUI

(***************************************************************************)
(* The Tab key inside the drawer.  The keydown listener of the drawer      *)
(* runs for a key pressed while the focus is on the drawer or inside it.   *)
(* When the listener does not prevent it, the browser's default moves the  *)
(* focus to the next (Tab) or previous (Shift+Tab) focusable element in    *)
(* document order; past the ends of the drawer that is an element of the   *)
(* page, which one depending on the page's markup.                         *)
(***************************************************************************)
InDrawer(e, focusable) ==
    \/ e = Root
    \/ \E n \in 1..Len(focusable) : focusable[n] = e

IndexOf(focusable, e) == CHOOSE n \in 1..Len(focusable) : focusable[n] = e

OutsideDrawer == {Toggle} \cup (IF pagePresent THEN {PageEl} ELSE {})

DefaultTab(shiftKey, focusable, active) ==
    IF active = Root
    THEN IF shiftKey \/ focusable = <<>> THEN OutsideDrawer ELSE {focusable[1]}
    ELSE LET n == IndexOf(focusable, active) IN
         IF shiftKey
         THEN IF n > 1 THEN {focusable[n - 1]} ELSE OutsideDrawer
         ELSE IF n < Len(focusable) THEN {focusable[n + 1]} ELSE OutsideDrawer

\* What a Tab keypress does to the focus: whether the default was prevented
\* and the elements the focus can be on afterwards.
TabResult(prevented, targets) == [prevented |-> prevented, targets |-> targets]

\* (mutant: Tab on the last element is left to the browser)
HandleTabKeyNoWrap(shiftKey, focusable, active) ==
    IF Len(focusable) = 0 THEN TabResult(TRUE, {active})
    ELSE IF shiftKey /\ active = focusable[1]
         THEN TabResult(TRUE, {focusable[Len(focusable)]})
         ELSE TabResult(FALSE, DefaultTab(shiftKey, focusable, active))

HandleTabKey(shiftKey, focusable, active) ==
    IF Len(focusable) = 0 THEN TabResult(TRUE, {active})
    ELSE IF shiftKey /\ active = focusable[1]
         THEN TabResult(TRUE, {focusable[Len(focusable)]})
         ELSE IF ~shiftKey /\ active = focusable[Len(focusable)]
              THEN TabResult(TRUE, {focusable[1]})
              ELSE TabResult(FALSE, DefaultTab(shiftKey, focusable, active))

\* keydown on the drawer with e.key === 'Tab'
TabKey(shiftKey) ==
    /\ drawer # "absent"
    /\ InDrawer(activeElement, GetFocusableElements(rendered.items))
    /\ LET focusable == GetFocusableElements(rendered.items)
           result == IF isOpen
                     THEN HandleTabKey(shiftKey, focusable, activeElement)
                     ELSE TabResult(FALSE, DefaultTab(shiftKey, focusable, activeElement))
       IN /\ \E target \in result.targets : activeElement' = target
          /\ step' = Gave(JPrevented(result.prevented), <<>>, <<>>)
    /\ UNCHANGED <<isOpen, lastActiveElement, focusAtOpening, offsetAtOpening,
                   scrollPosition, scrollY, bodyStyle>>
    /\ UNCHANGED restUI

\* The elements the Tab key can reach: those of the drawer and of the page.
Tabbable(focusable) == {focusable[n] : n \in 1..Len(focusable)} \cup OutsideDrawer

\* Tab pressed while the focus is outside the drawer (on the body after the
\* focused control was removed, or on an element of the page): the keydown
\* does not pass through the drawer, its listener does not run, and the
\* browser moves the focus from where it was; from the body that is from a
\* starting point the browser chooses, so every element the key can reach
\* is a possible target.
TabKeyOutside(shiftKey) ==
    /\ drawer # "absent"
    /\ ~InDrawer(activeElement, GetFocusableElements(rendered.items))
    /\ \E target \in Tabbable(GetFocusableElements(rendered.items)) \ {activeElement} :
          activeElement' = target
    /\ step' = Gave(JPrevented(FALSE), <<>>, <<>>)
    /\ UNCHANGED <<isOpen, lastActiveElement, focusAtOpening, offsetAtOpening,
                   scrollPosition, scrollY, bodyStyle>>
    /\ UNCHANGED restUI

(***************************************************************************)
(* The page around the controller: the user scrolls (not while the body    *)
(* is pinned), moves the focus between the elements of the page, and a     *)
(* page script removes the page element.                                   *)
(***************************************************************************)
UserScroll(y) ==
    /\ bodyStyle = Unpinned
    /\ y # scrollY
    /\ scrollY' = y
    /\ step' = Quiet
    /\ UNCHANGED <<drawer, isOpen, isUpdating, loading, lastActiveElement,
                   focusAtOpening, offsetAtOpening,
                   scrollPosition, bodyStyle, activeElement, pagePresent,
                   rendered, lastCart, server, net, toasts, submitBtn, awaiting>>

UserFocus(e) ==
    /\ ~isOpen
    /\ e \in {Body, Toggle, PageEl}
    /\ DocumentContains(e)
    /\ e # activeElement
    /\ activeElement' = e
    /\ step' = Quiet
    /\ UNCHANGED <<drawer, isOpen, isUpdating, loading, lastActiveElement,
                   focusAtOpening, offsetAtOpening,
                   scrollPosition, scrollY, bodyStyle, pagePresent,
                   rendered, lastCart, server, net, toasts, submitBtn, awaiting>>

RemovePageElement ==
    /\ pagePresent
    /\ pagePresent' = FALSE
    /\ activeElement' = IF activeElement = PageEl THEN Body ELSE activeElement
    /\ step' = Quiet
    /\ UNCHANGED <<drawer, isOpen, isUpdating, loading, lastActiveElement,
                   focusAtOpening, offsetAtOpening,
                   scrollPosition, scrollY, bodyStyle,
                   rendered, lastCart, server, net, toasts, submitBtn, awaiting>>


(***************************************************************************)
(* Toasts.  showError appends a toast to the body and sets two timers: on  *)
(* the next animation frame the toast gets its visible marker, 3 s later   *)
(* it loses it, and 300 ms after that it is removed.  The page is shown,   *)
(* so the animation frame comes before the 3 s timer.  The text of a       *)
(* toast is in the record of the step that showed it.                      *)
(***************************************************************************)
FreeToasts == {t \in ToastSlots : toasts[t] = "none"}
FirstFreeToast == CHOOSE t \in FreeToasts : \A u \in FreeToasts : t <= u

\* document.body.appendChild(toast)
ShowError == toasts' = [toasts EXCEPT ![FirstFreeToast] = "created"]

toastRest == <<drawer, isOpen, isUpdating, loading, lastActiveElement,
               focusAtOpening, offsetAtOpening,
               scrollPosition, scrollY, bodyStyle, activeElement,
               pagePresent, rendered, lastCart, server, net, submitBtn, awaiting>>

\* requestAnimationFrame(() => toast.classList.add('cart-toast--visible'))
ToastFrame(t) ==
    /\ toasts[t] = "created"
    /\ toasts' = [toasts EXCEPT ![t] = "visible"]
    /\ step' = Quiet
    /\ UNCHANGED toastRest

\* setTimeout(() => { toast.classList.remove('cart-toast--visible'); ... }, 3000)
ToastTimeout(t) ==
    /\ toasts[t] = "visible"
    /\ toasts' = [toasts EXCEPT ![t] = "hiding"]
    /\ step' = Quiet
    /\ UNCHANGED toastRest

\* (mutant: the inner timer is never set)
ToastStays(t) ==
    /\ toasts[t] = "hiding"
    /\ toasts' = toasts
    /\ step' = Quiet
    /\ UNCHANGED toastRest

\* setTimeout(() => toast.remove(), 300)
ToastRemoved(t) ==
    /\ toasts[t] = "hiding"
    /\ toasts' = [toasts EXCEPT ![t] = "none"]
    /\ step' = Quiet
    /\ UNCHANGED toastRest

ToastNext ==
    \/ \E t \in ToastSlots : ToastFrame(t)
    \/ \E t \in ToastSlots : ToastTimeout(t)
    \/ \E t \in ToastSlots : ToastRemoved(t)

(***************************************************************************)
(* The submit control of the add-to-cart form: its disabled flag, its      *)
(* label and the label kept in dataset.originalText ("" while unset).      *)
(***************************************************************************)
InitialLabel == "Add to cart"

SubmitBtn(disabled, textContent, originalText) ==
    [disabled |-> disabled, textContent |-> textContent,
     originalText |-> originalText]

(***************************************************************************)
(* Requests in flight.  A request is "sent" until the boundary answers it  *)
(* and "replied" until the response reaches the controller; cont names     *)
(* the code that resumes then.                                             *)
(***************************************************************************)
NoReq ==
    [kind |-> "none", cont |-> "", id |-> "", qty |-> 0, st |-> "", out |-> "",
     cart |-> JNone]

Req(kind, cont, id, qty) ==
    [kind |-> kind, cont |-> cont, id |-> id, qty |-> qty, st |-> "sent",
     out |-> "", cart |-> JNone]

FreeSlots == {i \in Slots : net[i] = NoReq}
FirstFree == CHOOSE i \in FreeSlots : \A j \in FreeSlots : i <= j
IsMutating(r) == r.kind \in {"add", "change"}
OutstandingMutations == {i \in Slots : IsMutating(net[i])}

\* (mutant: the class is added when asked for and never taken off)
SetLoadingAdds(l) == IF drawer = "absent" THEN loading ELSE (loading \/ l)

\* this.drawer?.classList.toggle('loading', loading)
SetLoading(l) == IF drawer = "absent" THEN loading ELSE l

\* (mutant: the guard is missing)
NeverDrop == FALSE

\* if (this.isUpdating) return;
MustDrop == isUpdating

\* (mutant: the flag is cleared on the success path only, not in a finally)
ClearedOnSuccessOnly(out) ==
    IF out = "ok"
    THEN isUpdating' = FALSE /\ loading' = SetLoading(FALSE)
    ELSE UNCHANGED <<isUpdating, loading>>

\* finally { this.isUpdating = false; this.setLoading(false); }
Finally(out) ==
    /\ isUpdating' = FALSE
    /\ loading' = SetLoading(FALSE)

\* (mutant: the guard sits inside the try, so its return runs the finally)
DroppedThroughFinally ==
    /\ step' = Gave(JUndefined, <<>>, <<>>)
    /\ isUpdating' = FALSE
    /\ loading' = SetLoading(FALSE)
    /\ UNCHANGED <<drawer, isOpen, lastActiveElement, focusAtOpening, offsetAtOpening,
                   scrollPosition, scrollY, bodyStyle, activeElement,
                   pagePresent, rendered, lastCart, server, net, toasts>>

\* return; (the promise of the call settles to undefined)
Dropped ==
    /\ step' = Gave(JUndefined, <<>>, <<>>)
    /\ UNCHANGED <<drawer, isOpen, isUpdating, loading, lastActiveElement,
                   focusAtOpening, offsetAtOpening,
                   scrollPosition, scrollY, bodyStyle,
                   activeElement, pagePresent, rendered, lastCart, server, net,
                   toasts>>

Accepted(r) ==
    /\ FreeSlots # {}
    /\ isUpdating' = TRUE
    /\ loading' = SetLoading(TRUE)
    /\ net' = [net EXCEPT ![FirstFree] = r]
    /\ step' = Quiet
    /\ UNCHANGED <<drawer, isOpen, lastActiveElement, focusAtOpening, offsetAtOpening,
                   scrollPosition, scrollY, bodyStyle, activeElement,
                   pagePresent, rendered, lastCart, server, toasts>>

\* addItem(variantId, quantity) down to its first await, or dropped
AddItemCall(variantId, quantity) ==
    IF MustDrop THEN Dropped
    ELSE Accepted(Req("add", "addItem", variantId, quantity))

\* updateItem(key, quantity) down to its await, or dropped
UpdateItemCall(key, quantity) ==
    IF MustDrop THEN Dropped
    ELSE Accepted(Req("change", "updateItem", key, quantity))

\* addItem called by a script of the page
AddItem(variantId, quantity) ==
    /\ AddItemCall(variantId, quantity)
    /\ UNCHANGED formVars

UpdateItem(key, quantity) ==
    /\ UpdateItemCall(key, quantity)
    /\ UNCHANGED formVars

\* (mutant: removeItem passes the quantity 1)
RemoveItemLeavesOne(key) == UpdateItem(key, 1)

\* return this.updateItem(key, 0);
RemoveItem(key) == UpdateItem(key, 0)

\* (mutant: fetchCart is behind the guard of the mutating calls)
FetchCartGuarded ==
    /\ ~isUpdating
    /\ FreeSlots # {}
    /\ net' = [net EXCEPT ![FirstFree] = Req("get", "fetchCart", "", 0)]
    /\ step' = Quiet
    /\ UNCHANGED <<drawer, isOpen, isUpdating, loading, lastActiveElement,
                   focusAtOpening, offsetAtOpening, scrollPosition, scrollY,
                   bodyStyle, activeElement, pagePresent, rendered, lastCart,
                   server, toasts, submitBtn, awaiting>>

\* fetchCart() down to its await: the constructor's call is in flight in the
\* initial state, every later one answers a cart:refresh event.
FetchCart ==
    /\ FreeSlots # {}
    /\ net' = [net EXCEPT ![FirstFree] = Req("get", "fetchCart", "", 0)]
    /\ step' = Quiet
    /\ UNCHANGED <<drawer, isOpen, isUpdating, loading, lastActiveElement,
                   focusAtOpening, offsetAtOpening,
                   scrollPosition, scrollY, bodyStyle,
                   activeElement, pagePresent, rendered, lastCart, server,
                   toasts, submitBtn, awaiting>>

(***************************************************************************)
(* The event handlers of the forms and of the quantity controls.  The      *)
(* text of a field is a sequence of characters; a field that is not in     *)
(* the form or the drawer is absent.  JavaScript numbers are the integers  *)
(* and NaN, for which a value outside every quantity stands.               *)
(***************************************************************************)
NaN == 0 - 1000000

FieldTexts ==
    { <<>>, <<"0">>, <<"2">>, <<"-", "1">>, <<"2", ".", "5">>, <<".", "5">>,
      <<"a", "b", "c">> }

Field(present, value) == [present |-> present, value |-> value]

FieldContents == {Field(FALSE, <<>>)} \cup {Field(TRUE, t) : t \in FieldTexts}

IsDigitChar(ch) == ch \in {"0", "1", "2", "3", "4", "5", "6", "7", "8", "9"}

DigitValue(ch) ==
    CASE ch = "0" -> 0 [] ch = "1" -> 1 [] ch = "2" -> 2 [] ch = "3" -> 3
      [] ch = "4" -> 4 [] ch = "5" -> 5 [] ch = "6" -> 6 [] ch = "7" -> 7
      [] ch = "8" -> 8 [] ch = "9" -> 9

RECURSIVE SkipWhitespace(_)
SkipWhitespace(chars) ==
    IF chars # <<>> /\ Head(chars) = " " THEN SkipWhitespace(Tail(chars))
    ELSE chars

\* the value of the longest prefix of digits, read after the digits acc
RECURSIVE DigitsValue(_, _)
DigitsValue(chars, acc) ==
    IF chars = <<>> \/ ~IsDigitChar(Head(chars)) THEN acc
    ELSE DigitsValue(Tail(chars), 10 * acc + DigitValue(Head(chars)))

\* parseInt(text, 10)
ParseInt(chars) ==
    LET s == SkipWhitespace(chars)
        signed == s # <<>> /\ Head(s) \in {"-", "+"}
        digits == IF signed THEN Tail(s) ELSE s
    IN IF digits = <<>> \/ ~IsDigitChar(Head(digits)) THEN NaN
       ELSE IF signed /\ Head(s) = "-" THEN 0 - DigitsValue(digits, 0)
       ELSE DigitsValue(digits, 0)

\* value || '1': the value of an absent field is null or undefined
OrDefault(field) ==
    IF ~field.present \/ field.value = <<>> THEN <<"1">> ELSE field.value

JsPlus(a, b) == IF a = NaN \/ b = NaN THEN NaN ELSE a + b

\* Math.max(0, x)
JsMax0(x) == IF x = NaN THEN NaN ELSE IF x > 0 THEN x ELSE 0

\* the button or input of the line is in the drawer
HasControls(key) ==
    /\ drawer # "absent"
    /\ \E n \in 1..Len(rendered.items) : rendered.items[n].key = key

\* handleQuantityChange(button, change) on the click of a decrement or
\* increment button; field is the quantity input of the line
HandleQuantityChange(key, field, change) ==
    /\ HasControls(key)
    /\ UpdateItem(key, JsMax0(JsPlus(ParseInt(OrDefault(field)), change)))

\* handleRemoveItem(button) on the click of a remove button
HandleRemoveItem(key) ==
    /\ HasControls(key)
    /\ RemoveItem(key)

\* the change listener of the drawer on a quantity input
QuantityInputChange(key, text) ==
    /\ HasControls(key)
    /\ IF ParseInt(text) # NaN /\ ParseInt(text) >= 0
       THEN UpdateItem(key, ParseInt(text))
       ELSE /\ step' = Quiet
            /\ UNCHANGED <<drawer, isOpen, isUpdating, loading, lastActiveElement,
                           focusAtOpening, offsetAtOpening,
                   scrollPosition, scrollY, bodyStyle,
                           activeElement, pagePresent, rendered, lastCart,
                           server, net, toasts, submitBtn, awaiting>>

\* handleAddToCart(form) on the submit of the form, down to its await; when
\* addItem drops the call the await is over at once and the handler runs
\* to its end
HandleAddToCart(variantId, field) ==
    /\ AddItemCall(variantId, ParseInt(OrDefault(field)))
    /\ IF MustDrop
       THEN /\ submitBtn' = SubmitBtn(FALSE, submitBtn.textContent,
                                      submitBtn.textContent)
            /\ UNCHANGED awaiting
       ELSE /\ submitBtn' = SubmitBtn(TRUE, "Adding...", submitBtn.textContent)
            /\ awaiting' = FirstFree

(***************************************************************************)
(* The cart HTTP boundary (spec section 6).                                *)
(***************************************************************************)
HasLine(lines, key) == \E i \in 1..Len(lines) : lines[i][1] = key

QuantityOf(lines, key) ==
    IF HasLine(lines, key)
    THEN (CHOOSE l \in {lines[i] : i \in 1..Len(lines)} : l[1] = key)[2]
    ELSE 0

SetQuantity(lines, key, q) ==
    [i \in 1..Len(lines) |-> IF lines[i][1] = key THEN <<key, q>> ELSE lines[i]]

RemoveLine(lines, key) == SelectSeq(lines, LAMBDA l : l[1] # key)

Acceptable(r) ==
    CASE r.kind = "add" ->
            r.qty >= 1 /\ QuantityOf(server, KeyOf(r.id)) + r.qty <= MaxStock
      [] r.kind = "change" ->
            HasLine(server, r.id) /\ r.qty >= 0 /\ r.qty <= MaxStock
      [] OTHER -> TRUE

Applied(r) ==
    CASE r.kind = "add" ->
            IF HasLine(server, KeyOf(r.id))
            THEN SetQuantity(server, KeyOf(r.id),
                             QuantityOf(server, KeyOf(r.id)) + r.qty)
            ELSE <<  <<KeyOf(r.id), r.qty>>  >> \o server
      [] r.kind = "change" ->
            IF r.qty = 0 THEN RemoveLine(server, r.id)
            ELSE SetQuantity(server, r.id, r.qty)
      [] OTHER -> server

\* How a request fails.  POST /cart/add.js: rejected before a response, or a
\* non-success status whose body has a description, has none, or does not
\* parse.  GET /cart.js and POST /cart/change.js: rejected, a non-success
\* status, or a success status whose body does not parse; all three end in
\* the same catch block, and the model does not tell them apart.
Failures(kind) ==
    IF kind = "add"
    THEN {"rejected", "status_desc", "status_nodesc", "status_unparsable"}
    ELSE {"failed"}

\* What the boundary can answer: "ok" with the request applied, or a failure
\* with the cart left as it was.
\* A failure of a mutating request ends in a toast: the boundary's failures
\* are drawn while the document has room for the toast of each.
FailuresOnTheirWay ==
    {i \in Slots : IsMutating(net[i]) /\ net[i].st = "replied" /\ net[i].out # "ok"}

ToastRoom == Cardinality(FreeToasts) > Cardinality(FailuresOnTheirWay)

Outcomes(r) ==
    (IF Acceptable(r) THEN {"ok"} ELSE {}) \cup
    (IF IsMutating(r) => ToastRoom THEN Failures(r.kind) ELSE {})

Serve(i) ==
    /\ net[i].st = "sent"
    /\ \E out \in Outcomes(net[i]) :
          /\ server' = IF out = "ok" THEN Applied(net[i]) ELSE server
          /\ net' = [net EXCEPT ![i].st = "replied", ![i].out = out,
                                ![i].cart = IF out = "ok" /\ net[i].kind # "add"
                                            THEN JCart(CartJson(server'))
                                            ELSE JNone]
    /\ step' = Quiet
    /\ UNCHANGED <<drawer, isOpen, isUpdating, loading, lastActiveElement,
                   focusAtOpening, offsetAtOpening,
                   scrollPosition, scrollY, bodyStyle,
                   activeElement, pagePresent, rendered, lastCart, toasts,
                   submitBtn, awaiting>>

\* The boundary answers with success.
ServeOk(i) ==
    /\ Serve(i)
    /\ net'[i].out = "ok"

(***************************************************************************)
(* The code that resumes when a response arrives.                          *)
(***************************************************************************)
\* this.renderCart(cart) on the cart of a response
Render(response) ==
    /\ rendered' = RenderCart(response.cart[2])
    /\ lastCart' = response.cart

\* (mutant: the description of the body is not read)
AddErrorGeneric(out) ==
    IF out \in {"status_desc", "status_nodesc"} THEN "Failed to add item"
    ELSE IF out = "status_unparsable" THEN "Unexpected token < in JSON at position 0"
    ELSE "Failed to fetch"

\* throw new Error(error.description || 'Failed to add item'), or the error
\* response.json() or fetch() rejected with
AddErrorMessage(out) ==
    CASE out = "status_desc" -> "Sold out"
      [] out = "status_nodesc" -> "Failed to add item"
      [] out = "status_unparsable" -> "Unexpected token < in JSON at position 0"
      [] OTHER -> "Failed to fetch"

\* fetchCart() from its await on
FetchCartResumes(i) ==
    /\ net[i].st = "replied" /\ net[i].cont = "fetchCart"
    /\ net' = [net EXCEPT ![i] = NoReq]
    /\ IF net[i].out = "ok"
       THEN /\ Render(net[i])
            /\ activeElement' = ActiveAfterRender(activeElement)
            /\ lastActiveElement' = LastAfterRender(lastActiveElement)
            /\ focusAtOpening' = LastAfterRender(focusAtOpening)
            /\ UNCHANGED offsetAtOpening
            /\ step' = Gave(net[i].cart, <<>>, <<>>)
       ELSE /\ UNCHANGED <<rendered, lastCart, activeElement, lastActiveElement,
                         focusAtOpening, offsetAtOpening>>
            /\ step' = Gave(JNull, <<>>, <<>>)
    /\ UNCHANGED <<drawer, isOpen, isUpdating, loading, scrollPosition, scrollY,
                   bodyStyle, pagePresent, server, toasts, submitBtn, awaiting>>

\* handleAddToCart() from its await of addItem() on, when the addItem that
\* settles is the one it awaits
HandlerResumes(i) ==
    IF awaiting = i
    THEN /\ submitBtn' = SubmitBtn(FALSE, submitBtn.originalText,
                                   submitBtn.originalText)
         /\ awaiting' = 0
    ELSE UNCHANGED formVars

\* addItem() from the await of POST /cart/add.js on: the follow-up
\* fetchCart() down to its await, or the catch and finally blocks
AddItemResumes(i) ==
    /\ net[i].st = "replied" /\ net[i].cont = "addItem"
    /\ IF net[i].out = "ok"
       THEN /\ net' = [net EXCEPT ![i] =
                          Req("get", "addItem.fetchCart", net[i].id, net[i].qty)]
            /\ step' = Quiet
            /\ UNCHANGED guardVars
            /\ UNCHANGED <<toasts, submitBtn, awaiting>>
       ELSE /\ net' = [net EXCEPT ![i] = NoReq]
            /\ step' = Gave(JNull, <<>>, <<AddErrorMessage(net[i].out)>>)
            /\ ShowError
            /\ Finally(net[i].out)
            /\ HandlerResumes(i)
    /\ UNCHANGED <<drawer, isOpen, lastActiveElement, focusAtOpening, offsetAtOpening,
                   scrollPosition, scrollY, bodyStyle, activeElement,
                   pagePresent, rendered, lastCart, server>>

\* the cart fetchCart() returned to addItem: null when the fetch failed
FetchedCart(r) == IF r.out = "ok" THEN r.cart ELSE JNull

\* addItem() from the await of its fetchCart() on: open(), the item-added
\* event, the finally block
AddItemFetched(i) ==
    /\ net[i].st = "replied" /\ net[i].cont = "addItem.fetchCart"
    /\ net' = [net EXCEPT ![i] = NoReq]
    /\ IF net[i].out = "ok"
       THEN Render(net[i])
       ELSE UNCHANGED <<rendered, lastCart>>
    /\ IF net[i].out = "ok"
       THEN OpenFrom(rendered'.items, ActiveAfterRender(activeElement),
                     LastAfterRender(lastActiveElement),
                     LastAfterRender(focusAtOpening))
       ELSE OpenNow
    /\ step' = Gave(FetchedCart(net[i]),
                    <<ItemAdded(net[i].id, net[i].qty, FetchedCart(net[i]),
                                rendered', isOpen')>>, <<>>)
    /\ Finally(net[i].out)
    /\ HandlerResumes(i)
    /\ UNCHANGED <<drawer, pagePresent, server, toasts>>

\* updateItem() from the await of POST /cart/change.js on
UpdateItemResumes(i) ==
    /\ net[i].st = "replied" /\ net[i].cont = "updateItem"
    /\ net' = [net EXCEPT ![i] = NoReq]
    /\ IF net[i].out = "ok"
       THEN /\ Render(net[i])
            /\ activeElement' = ActiveAfterRender(activeElement)
            /\ lastActiveElement' = LastAfterRender(lastActiveElement)
            /\ focusAtOpening' = LastAfterRender(focusAtOpening)
            /\ UNCHANGED offsetAtOpening
            /\ step' = Gave(net[i].cart,
                            <<CartUpdated(net[i].cart, rendered', isOpen)>>, <<>>)
            /\ UNCHANGED toasts
       ELSE /\ UNCHANGED <<rendered, lastCart, activeElement, lastActiveElement,
                         focusAtOpening, offsetAtOpening>>
            /\ step' = Gave(JNull, <<>>,
                            <<"Failed to update cart">>)
            /\ ShowError
    /\ Finally(net[i].out)
    /\ UNCHANGED <<drawer, isOpen, scrollPosition, scrollY, bodyStyle,
                   pagePresent, server, submitBtn, awaiting>>

(***************************************************************************)
(* The controller after its construction on a page of a fresh session:     *)
(* closed, nothing rendered yet, the constructor's fetchCart() in flight.  *)
(***************************************************************************)
Constructed ==
    /\ isOpen = FALSE
    /\ isUpdating = FALSE
    /\ loading = FALSE
    /\ lastActiveElement = NullEl
    /\ focusAtOpening = NullEl
    /\ offsetAtOpening = 0
    /\ scrollPosition = 0
    /\ bodyStyle = Unpinned
    /\ activeElement = Body
    /\ pagePresent = TRUE
    /\ rendered = Markup
    /\ lastCart = JNone
    /\ server = <<>>
    /\ net = [i \in Slots |-> IF i = 1 THEN Req("get", "fetchCart", "", 0) ELSE NoReq]
    /\ toasts = [t \in ToastSlots |-> "none"]
    /\ submitBtn = SubmitBtn(FALSE, InitialLabel, "")
    /\ awaiting = 0
    /\ step = Quiet

\* The operations on the cart and the boundary's part in them.
CartNext ==
    \/ \E v \in Variants, q \in Quantities : AddItem(v, q)
    \/ \E k \in Keys, q \in 0..MaxStock : UpdateItem(k, q)
    \/ \E k \in Keys : RemoveItem(k)
    \/ FetchCart
    \/ \E i \in Slots : Serve(i)
    \/ \E i \in Slots : FetchCartResumes(i)
    \/ \E i \in Slots : AddItemResumes(i)
    \/ \E i \in Slots : AddItemFetched(i)
    \/ \E i \in Slots : UpdateItemResumes(i)

(***************************************************************************)
(* Spec: the cart operations in every interleaving with the boundary's     *)
(* responses, the drawer opened and closed through open() and close(),     *)
(* on a page at rest (scrolled to the top, nothing focused) whose drawer,   *)
(* if it has one, has a close button.                                      *)
(***************************************************************************)
Init ==
    /\ Constructed
    /\ drawer \in DrawerKinds
    /\ scrollY = 0

Next ==
    \/ Open
    \/ Close
    \/ CartNext

Spec == Init /\ [][Next]_vars

(***************************************************************************)
(* SpecDrawer: the drawer in its page.  Every way to open and close it,    *)
(* the user scrolling and moving the focus, a page element going away,     *)
(* and of the cart operations the ones that open the drawer and change     *)
(* the rendered lines (one unit added, a line removed).                    *)
(***************************************************************************)
InitDrawer ==
    /\ Constructed
    /\ drawer \in DrawerKinds
    /\ scrollY \in Offsets

NextDrawer ==
    \/ Open
    \/ Close
    \/ Toggle_
    \/ Escape
    \/ OverlayClick
    \/ \E y \in Offsets : UserScroll(y)
    \/ \E e \in {Body, Toggle, PageEl} : UserFocus(e)
    \/ RemovePageElement
    \/ \E v \in Variants : AddItem(v, 1)
    \/ \E k \in Keys : RemoveItem(k)
    \/ \E i \in Slots : Serve(i)
    \/ \E i \in Slots : FetchCartResumes(i)
    \/ \E i \in Slots : AddItemResumes(i)
    \/ \E i \in Slots : AddItemFetched(i)
    \/ \E i \in Slots : UpdateItemResumes(i)

SpecDrawer == InitDrawer /\ [][NextDrawer]_vars

(***************************************************************************)
(* SpecFocus: the focus inside an open drawer.  The drawer opened by       *)
(* open() or by an add, Tab and Shift+Tab pressed inside it, units of the  *)
(* variant added, so that the drawer holds 0, 1, 5 or 6 focusable          *)
(* elements.                                                               *)
(***************************************************************************)
InitFocus ==
    /\ Constructed
    /\ drawer \in FocusDrawerKinds
    /\ scrollY = 0

NextFocus ==
    \/ Open
    \/ \E shiftKey \in BOOLEAN : TabKey(shiftKey)
    \/ \E v \in Variants : AddItem(v, 1)
    \/ \E i \in Slots : Serve(i)
    \/ \E i \in Slots : FetchCartResumes(i)
    \/ \E i \in Slots : AddItemResumes(i)
    \/ \E i \in Slots : AddItemFetched(i)

SpecFocus == InitFocus /\ [][NextFocus]_vars

(***************************************************************************)
(* SpecTrap: the Tab key around re-renders.  The drawer opened, units      *)
(* added and the line removed through its remove button, the cart          *)
(* refreshed, Tab and Shift+Tab pressed wherever the focus is.             *)
(***************************************************************************)
InitTrap ==
    /\ Constructed
    /\ drawer = "close"
    /\ scrollY = 0

NextTrap ==
    \/ Open
    \/ \E shiftKey \in BOOLEAN : TabKey(shiftKey)
    \/ \E shiftKey \in BOOLEAN : TabKeyOutside(shiftKey)
    \/ \E v \in Variants : AddItem(v, 1)
    \/ \E k \in Keys : HandleRemoveItem(k)
    \/ \E i \in Slots : Serve(i)
    \/ \E i \in Slots : FetchCartResumes(i)
    \/ \E i \in Slots : AddItemResumes(i)
    \/ \E i \in Slots : AddItemFetched(i)
    \/ \E i \in Slots : UpdateItemResumes(i)

SpecTrap == InitTrap /\ [][NextTrap]_vars

(***************************************************************************)
(* SpecSync: the cart operations and the refreshes on a boundary that      *)
(* answers every request with success, the responses arriving in every     *)
(* order; no one else changes the cart.                                    *)
(***************************************************************************)
NextSync ==
    \/ \E v \in Variants, q \in Quantities : AddItem(v, q)
    \/ \E k \in Keys, q \in 0..MaxStock : UpdateItem(k, q)
    \/ FetchCart
    \/ \E i \in Slots : ServeOk(i)
    \/ \E i \in Slots : FetchCartResumes(i)
    \/ \E i \in Slots : AddItemResumes(i)
    \/ \E i \in Slots : AddItemFetched(i)
    \/ \E i \in Slots : UpdateItemResumes(i)

SpecSync == Init /\ [][NextSync]_vars

(***************************************************************************)
(* SpecForms: the add-to-cart form submitted and the quantity controls of  *)
(* the drawer used, with every content the quantity field can have, in     *)
(* every interleaving with the responses.                                  *)
(***************************************************************************)
NextForms ==
    \/ \E k \in Keys : HandleRemoveItem(k)
    \/ \E v \in Variants, field \in FieldContents : HandleAddToCart(v, field)
    \/ \E k \in Keys, field \in FieldContents, change \in {0 - 1, 1} :
          HandleQuantityChange(k, field, change)
    \/ \E k \in Keys, text \in FieldTexts : QuantityInputChange(k, text)
    \/ \E i \in Slots : Serve(i)
    \/ \E i \in Slots : FetchCartResumes(i)
    \/ \E i \in Slots : AddItemResumes(i)
    \/ \E i \in Slots : AddItemFetched(i)
    \/ \E i \in Slots : UpdateItemResumes(i)

SpecForms == Init /\ [][NextForms]_vars

(***************************************************************************)
(* SpecMoney: formatMoney called with every amount of 0..MaxCents.         *)
(***************************************************************************)
FormatMoneyCall(cents) ==
    /\ step' = Gave(JMoney(cents, FormatMoney(cents)), <<>>, <<>>)
    /\ UNCHANGED <<drawer, isOpen, isUpdating, loading, lastActiveElement,
                   focusAtOpening, offsetAtOpening,
                   scrollPosition, scrollY, bodyStyle,
                   activeElement, pagePresent, rendered, lastCart, server, net,
                   toasts, submitBtn, awaiting>>

NextMoney == \E cents \in Amounts : FormatMoneyCall(cents)

SpecMoney == Init /\ [][NextMoney]_vars

(***************************************************************************)
(* LiveSpec: the cart operations and the timers of the toasts, every       *)
(* request in flight eventually answered, every response eventually        *)
(* delivered and every timer eventually fired.                             *)
(***************************************************************************)
Delivered(i) ==
    \/ FetchCartResumes(i)
    \/ AddItemResumes(i)
    \/ AddItemFetched(i)
    \/ UpdateItemResumes(i)

Fairness == \A i \in Slots : WF_vars(Serve(i)) /\ WF_vars(Delivered(i))

\* Every timer of a toast fires.
ToastFairness ==
    \A t \in ToastSlots :
       /\ WF_vars(ToastFrame(t))
       /\ WF_vars(ToastTimeout(t))
       /\ WF_vars(ToastRemoved(t))

LiveNext == CartNext \/ ToastNext

LiveSpec == Init /\ [][LiveNext]_vars /\ Fairness /\ ToastFairness

(***************************************************************************)
(* C1.  At most one mutating request (POST /cart/add.js or POST            *)
(* /cart/change.js) is outstanding at any time, whatever the interleaving  *)
(* of addItem, updateItem and removeItem calls with the responses.         *)
(***************************************************************************)
C1_AtMostOneMutation == Cardinality(OutstandingMutations) <= 1

\* A mutating call has just been turned away while another one's request is
\* outstanding.
C1_Witness ==
    /\ Cardinality(OutstandingMutations) = 1
    /\ step.ret = JUndefined

(***************************************************************************)
(* C2.  A mutating call made while the request-in-flight flag is set is    *)
(* dropped: it settles to undefined, issues no request, renders nothing,   *)
(* dispatches no event, shows no toast, and leaves the flag, the loading   *)
(* indicator and everything else as they were.                             *)
(***************************************************************************)
MutatingCall ==
    \/ \E v \in Variants, q \in Quantities : AddItem(v, q)
    \/ \E k \in Keys, q \in 0..MaxStock : UpdateItem(k, q)
    \/ \E k \in Keys : RemoveItem(k)

C2_DroppedCallHasNoEffect ==
    [][(isUpdating /\ MutatingCall) =>
          /\ step' = Gave(JUndefined, <<>>, <<>>)
          /\ net' = net
          /\ isUpdating' /\ loading' = loading
          /\ rendered' = rendered /\ lastCart' = lastCart
          /\ server' = server
          /\ toasts' = toasts
          /\ UNCHANGED uiVars]_vars

\* A call was dropped: the flag and the indicator are still set, the one
\* request of the outstanding call is still in flight.
C2_Witness ==
    /\ step.ret = JUndefined
    /\ isUpdating /\ loading
    /\ \E i \in Slots : IsMutating(net[i]) /\ net[i].st = "sent"

(***************************************************************************)
(* C3.  The request-in-flight flag never stays set: with every request     *)
(* eventually answered and every response eventually delivered, a set      *)
(* flag is eventually cleared, whether the request succeeded, came back    *)
(* with a non-success status or an unparsable body, or was rejected; so    *)
(* the controller always eventually accepts a new mutating call.           *)
(***************************************************************************)
C3_GuardEventuallyClears == isUpdating ~> ~isUpdating

\* The flag is clear again right after a mutating call failed (its toast is
\* the latest thing shown).
C3_Witness ==
    /\ ~isUpdating
    /\ step.toasts # <<>>
    /\ step.ret = JNull
(***************************************************************************)
(* C4.  The drawer starts Closed.  On a page that has the drawer, open()   *)
(* leaves it Open and close() leaves it Closed whatever it was before      *)
(* (open() on an Open drawer keeps it Open, close() on a Closed one keeps  *)
(* it Closed), and toggle() turns Closed into Open and Open into Closed.   *)
(***************************************************************************)
C4_OpenStateFollowsLastCall ==
    /\ ~isOpen
    /\ [][drawer # "absent" =>
            /\ Open => isOpen'
            /\ Close => ~isOpen'
            /\ Toggle_ => (isOpen' = ~isOpen)]_vars

\* The drawer is Open after open() was called on it while it was Open: the
\* element recorded at that call is the close button inside the drawer.
C4_Witness ==
    /\ isOpen
    /\ lastActiveElement = CloseBtn
    /\ step = Quiet

(***************************************************************************)
(* C5.  When addItem is accepted and its add request succeeds, then at     *)
(* the end of the call the drawer is Open, the panel has been re-rendered  *)
(* from the cart the follow-up GET /cart.js returned (badges its           *)
(* item_count, subtotal its total_price), and exactly one item-added       *)
(* event has been dispatched, after the render and the open, with the      *)
(* variant id and quantity of the call.                                    *)
(***************************************************************************)
C5_AddItemSuccess ==
    [][\A i \in Slots :
          (drawer # "absent" /\ AddItemFetched(i)) =>
             /\ isOpen'
             /\ net[i].out = "ok"
             /\ rendered'.count = ToString(net[i].cart[2].item_count)
             /\ rendered'.subtotal = FormatMoney(net[i].cart[2].total_price)
             /\ lastCart' = net[i].cart
             /\ Len(step'.events) = 1
             /\ step'.events[1].type = "cart:item-added"
             /\ step'.events[1].variantId = net[i].id
             /\ step'.events[1].quantity = net[i].qty
             /\ step'.events[1].panel = rendered'
             /\ step'.events[1].open]_vars

(***************************************************************************)
(* C6.  When the add request of addItem fails, the call settles to null,   *)
(* one error toast is shown (the description of the response body when it  *)
(* has one), the drawer keeps its open/closed state, the rendered cart is  *)
(* unchanged, no follow-up fetch is issued and no event is dispatched.     *)
(***************************************************************************)
C6_AddItemFailure ==
    [][\A i \in Slots :
          (AddItemResumes(i) /\ net[i].out # "ok") =>
             /\ step'.ret = JNull
             /\ Len(step'.toasts) = 1
             /\ net[i].out = "status_desc" => step'.toasts[1] = "Sold out"
             /\ isOpen' = isOpen
             /\ rendered' = rendered /\ lastCart' = lastCart
             /\ \A j \in Slots : net'[j] = IF j = i THEN NoReq ELSE net[j]
             /\ step'.events = <<>>]_vars

\* A sold-out add has just failed on an Open drawer with a line rendered.
C6_Witness ==
    /\ step = Gave(JNull, <<>>, <<"Sold out">>)
    /\ isOpen
    /\ rendered.items # <<>>

(***************************************************************************)
(* C7.  When updateItem is accepted and its change request succeeds, the   *)
(* panel is re-rendered from the Cart of that response with no further     *)
(* request, one cart-updated event carrying that cart is dispatched after  *)
(* the render, and the call settles to that cart; with quantity 0 the      *)
(* rendered list has no line of that key.  removeItem(key) is              *)
(* updateItem(key, 0).                                                     *)
(***************************************************************************)
C7_UpdateItemSuccess ==
    [][/\ \A i \in Slots :
            (UpdateItemResumes(i) /\ net[i].out = "ok") =>
               /\ rendered'.count = ToString(net[i].cart[2].item_count)
               /\ rendered'.subtotal = FormatMoney(net[i].cart[2].total_price)
               /\ Len(rendered'.items) = Len(net[i].cart[2].items)
               /\ lastCart' = net[i].cart
               /\ \A j \in Slots : net'[j] = IF j = i THEN NoReq ELSE net[j]
               /\ step'.ret = net[i].cart
               /\ step'.events = <<CartUpdated(net[i].cart, rendered', isOpen)>>
               /\ step'.toasts = <<>>
               /\ net[i].qty = 0 =>
                     \A n \in 1..Len(rendered'.items) :
                         rendered'.items[n].key # net[i].id
       /\ \A k \in Keys : RemoveItem(k) <=> UpdateItem(k, 0)]_vars

\* A removal has just succeeded: the cart of the cart-updated event is
\* empty and so is the rendered list.
C7_Witness ==
    /\ step.events # <<>>
    /\ step.events[1].type = "cart:updated"
    /\ step.events[1].cart[2].item_count = 0
    /\ rendered.items = <<>>

(***************************************************************************)
(* C8.  The rendered cart is always the projection of one Cart, the one    *)
(* of the latest successful response that was rendered: badges, subtotal,  *)
(* empty/content regions and items list all come from it, nothing shown    *)
(* is computed on the client, and a failed fetchCart, addItem or           *)
(* updateItem changes none of the rendered parts.                          *)
(***************************************************************************)
ProjectionOf(cart) ==
    /\ rendered.count = ToString(cart.item_count)
    /\ rendered.countHidden = (cart.item_count = 0)
    /\ rendered.subtotal = FormatMoney(cart.total_price)
    /\ rendered.emptyShown = (cart.item_count = 0)
    /\ rendered.contentShown = (cart.item_count # 0)
    /\ Len(rendered.items) = Len(cart.items)
    /\ \A n \in 1..Len(cart.items) :
          /\ rendered.items[n].key = cart.items[n].key
          /\ rendered.items[n].value = ToString(cart.items[n].quantity)
          /\ rendered.items[n].price = FormatMoney(cart.items[n].final_line_price)

FailedResume ==
    \E i \in Slots :
       /\ net[i].st = "replied" /\ net[i].out # "ok"
       /\ Delivered(i)

C8_RenderedIsOneCart ==
    /\ [](IF lastCart = JNone THEN rendered = Markup ELSE ProjectionOf(lastCart[2]))
    /\ [][FailedResume => rendered' = rendered]_vars

\* An operation has just failed while a cart with a line is rendered that
\* is no longer the cart of the boundary.
C8_Witness ==
    /\ step.ret = JNull
    /\ lastCart # JNone
    /\ rendered.items # <<>>
    /\ lastCart[2] # CartJson(server)

(***************************************************************************)
(* C9.  On a page that has the drawer, open() on a Closed drawer at page   *)
(* offset Y captures Y and pins the body at it, and close() from there     *)
(* scrolls the page back to Y and removes the pinning (position, top and   *)
(* width of the body).                                                     *)
(***************************************************************************)
LockedAt(y) == scrollPosition = y /\ bodyStyle = Pinned(y)

C9_ScrollRestored ==
    [][\A y \in Offsets :
          drawer # "absent" =>
             /\ (~isOpen /\ scrollY = y /\ Open) => LockedAt(y)'
             /\ (LockedAt(y) /\ Close) => (scrollY' = y /\ bodyStyle' = Unpinned)]_vars

\* The drawer was opened at the largest offset and closed again.
C9_Witness ==
    /\ ~isOpen
    /\ scrollPosition = MaxScroll
    /\ scrollY = MaxScroll
    /\ bodyStyle = Unpinned

(***************************************************************************)
(* C10.  When the drawer goes from Open to Closed, the focus returns to    *)
(* the element that had it before the drawer was opened if that element    *)
(* is still in the document, and to the cart toggle otherwise, however     *)
(* the drawer became Open (a successful addItem calling open() on an Open  *)
(* drawer included).  The case that no element had the focus (the body     *)
(* was the active element) is left out.                                    *)
(***************************************************************************)
C10_FocusReturns ==
    [][(drawer # "absent" /\ isOpen /\ ~isOpen' /\ focusAtOpening # Body) =>
          activeElement' = IF DocumentContains(focusAtOpening)
                           THEN focusAtOpening
                           ELSE Toggle]_vars

(***************************************************************************)
(* C12.  While the drawer is Open, an Escape keypress and a click on the   *)
(* overlay each leave it Closed.  An Escape keypress while it is Closed    *)
(* calls no close(): open state, scroll offset, body pinning and focus     *)
(* stay as they were.                                                      *)
(***************************************************************************)
C12_EscapeAndOverlayClose ==
    [][/\ (isOpen /\ (Escape \/ OverlayClick)) => ~isOpen'
       /\ (~isOpen /\ Escape) => UNCHANGED uiVars]_vars

\* The drawer, opened from the page element at the largest offset, has been
\* closed again: focus and scroll offset are back.
C12_Witness ==
    /\ ~isOpen
    /\ lastActiveElement = PageEl
    /\ activeElement = PageEl
    /\ scrollY = MaxScroll
    /\ bodyStyle = Unpinned

(***************************************************************************)
(* C13.  Every failure of fetchCart, addItem or updateItem shows one       *)
(* toast, settles the operation to null and issues no further request.     *)
(***************************************************************************)
C13_EveryFailureToasts ==
    [][\A i \in Slots :
          (net[i].st = "replied" /\ net[i].out # "ok" /\ Delivered(i)) =>
             /\ Len(step'.toasts) = 1
             /\ step'.ret = JNull
             /\ \A j \in Slots : net'[j] = IF j = i THEN NoReq ELSE net[j]]_vars

(***************************************************************************)
(* C14.  When POST /cart/add.js answers with a non-success status, the     *)
(* toast shows the description of the body if the body parses and has      *)
(* one, and 'Failed to add item' when it has none or does not parse.       *)
(***************************************************************************)
C14_AddStatusMessage ==
    [][\A i \in Slots :
          (AddItemResumes(i) /\
           net[i].out \in {"status_desc", "status_nodesc", "status_unparsable"}) =>
             step'.toasts = << IF net[i].out = "status_desc"
                               THEN "Sold out"
                               ELSE "Failed to add item" >>]_vars

(***************************************************************************)
(* C18.  After renderCart(cart), whatever was rendered before: the badges  *)
(* show cart.item_count and are hidden exactly when it is 0, the empty     *)
(* region is shown and the content region hidden exactly when it is 0,     *)
(* and the items list has one block per element of cart.items, in the      *)
(* order of the response, with no block of the previous render left.       *)
(***************************************************************************)
RendersCart(i) ==
    /\ net[i].st = "replied" /\ net[i].out = "ok" /\ net[i].cart # JNone
    /\ Delivered(i)

Digit(d) ==
    CASE d = 0 -> "0" [] d = 1 -> "1" [] d = 2 -> "2" [] d = 3 -> "3"
      [] d = 4 -> "4" [] d = 5 -> "5" [] d = 6 -> "6" [] d = 7 -> "7"
      [] d = 8 -> "8" [] d = 9 -> "9"

RECURSIVE Decimal(_)
Decimal(n) == IF n < 10 THEN Digit(n) ELSE Decimal(n \div 10) \o Digit(n % 10)

C19_FormatMoney ==
    step.ret[1] = "money" =>
       LET c == step.ret[2]
           s == step.ret[3]
       IN /\ s = "$" \o Decimal(c \div 100) \o "." \o
                 Digit((c % 100) \div 10) \o Digit(c % 10)
          /\ c = 1050 => s = "$10.50"
          /\ c = 0 => s = "$0.00"

\* formatMoney(1005) returned "$10.05": a fraction below ten keeps its zero.
C19_Witness == step.ret = JMoney(1005, "$10.05")

(***************************************************************************)
(* C11.  With the drawer Open and N >= 1 focusable elements inside it:     *)
(* Tab on the n-th element moves the focus to the next one and Tab on the  *)
(* last one to the first, so that N presses from the first element lead    *)
(* back to it; Shift+Tab on the first element moves the focus to the       *)
(* last.  With N = 0 a Tab keypress inside the drawer is prevented and     *)
(* the focus stays where it is.                                            *)
(***************************************************************************)
RECURSIVE TabTimes(_, _, _)
TabTimes(n, focusable, e) ==
    IF n = 0 THEN {e}
    ELSE UNION {TabTimes(n - 1, focusable, t) :
                   t \in HandleTabKey(FALSE, focusable, e).targets}

Focusable == GetFocusableElements(rendered.items)

TabCycles ==
    (isOpen /\ Len(Focusable) >= 1) =>
       TabTimes(Len(Focusable), Focusable, Focusable[1]) = {Focusable[1]}

C11_FocusTrap ==
    /\ []TabCycles
    /\ [][(isOpen /\ Len(Focusable) >= 1 /\
           activeElement \in {Focusable[n] : n \in 1..Len(Focusable)}) =>
             /\ TabKey(FALSE) =>
                   activeElement' =
                      Focusable[(IndexOf(Focusable, activeElement) % Len(Focusable)) + 1]
             /\ (TabKey(TRUE) /\ activeElement = Focusable[1]) =>
                   activeElement' = Focusable[Len(Focusable)]]_vars
    /\ [][(isOpen /\ Len(Focusable) = 0 /\ (TabKey(FALSE) \/ TabKey(TRUE))) =>
             /\ step' = Gave(JPrevented(TRUE), <<>>, <<>>)
             /\ activeElement' = activeElement]_vars

\* Tab on the last of six elements (the remove button of the line) has
\* just been prevented and the focus is on the first, the close button.
C11_Witness ==
    /\ isOpen
    /\ Len(GetFocusableElements(rendered.items)) = 6
    /\ step.ret = JPrevented(TRUE)
    /\ activeElement = CloseBtn

(***************************************************************************)
(* C20.  Every toast of showError is in the end removed from the document  *)
(* with no action of the user: it loses its visible marker first and is    *)
(* removed after that.  Toasts are independent: each failure that shows    *)
(* an error adds one toast, and the timers of a toast change no other      *)
(* toast.                                                                  *)
(***************************************************************************)
LiveToasts == {t \in ToastSlots : toasts[t] # "none"}

C20_ToastsRemoved ==
    /\ \A t \in ToastSlots : (toasts[t] # "none") ~> (toasts[t] = "none")
    /\ [][\A t \in ToastSlots :
             /\ (toasts[t] # "none" /\ toasts'[t] = "none") => toasts[t] = "hiding"
             /\ (toasts[t] # "hiding" /\ toasts'[t] = "hiding") => toasts[t] = "visible"
             /\ (ToastFrame(t) \/ ToastTimeout(t) \/ ToastRemoved(t)) =>
                   \A u \in ToastSlots \ {t} : toasts'[u] = toasts[u]]_vars
    /\ [][step'.toasts # <<>> =>
             /\ Cardinality(LiveToasts') = Cardinality(LiveToasts) + 1
             /\ \A t \in LiveToasts : toasts'[t] = toasts[t]]_vars

\* Two failures in a row: the toast of the first is on its way out while
\* the toast of the second has just been created.
C20_Witness ==
    /\ toasts[1] = "hiding"
    /\ toasts[2] = "created"
    /\ step.toasts # <<>>

(***************************************************************************)
(* C15.  While a submission's call runs the submit control is disabled     *)
(* and relabelled, and once every submission handler has finished it is    *)
(* enabled again and shows the label it had before the first submission,   *)
(* whether the call succeeded, failed or was dropped by the guard.         *)
(***************************************************************************)
C15_SubmitControlRestored ==
    IF awaiting = 0
    THEN ~submitBtn.disabled /\ submitBtn.textContent = InitialLabel
    ELSE submitBtn.disabled /\ submitBtn.textContent = "Adding..."

(***************************************************************************)
(* C16.  On every click of an increment or decrement control the quantity  *)
(* passed to updateItem is max(0, v + delta), v being the integer parsed   *)
(* from the quantity field of the line, or 1 when the field is missing,    *)
(* empty or holds text that does not parse: always an integer >= 0.        *)
(* (Stated for the clicks whose call the guard accepts: the quantity is    *)
(* then the one of the request.)                                           *)
(***************************************************************************)
FieldInteger(field) ==
    IF ~field.present \/ ParseInt(field.value) = NaN THEN 1
    ELSE ParseInt(field.value)

Sent(kind, id, qty) ==
    \E i \in Slots :
       /\ net[i] = NoReq
       /\ net'[i].kind = kind /\ net'[i].id = id /\ net'[i].qty = qty

C16_ClickQuantity ==
    [][\A k \in Keys, field \in FieldContents, change \in {0 - 1, 1} :
          (~isUpdating /\ HandleQuantityChange(k, field, change)) =>
             LET q == FieldInteger(field) + change IN
             Sent("change", k, IF q > 0 THEN q ELSE 0)]_vars

(***************************************************************************)
(* C17.  On every submission of the add-to-cart form the quantity passed   *)
(* to addItem is the integer parsed from the quantity field of the form,   *)
(* or 1 when the field is absent, empty or not a valid number.  A change   *)
(* committed on a quantity input calls updateItem with the value typed     *)
(* exactly when it parses to an integer >= 0, and calls nothing            *)
(* otherwise.  (Stated for the calls the guard accepts.)                   *)
(***************************************************************************)
C17_FormQuantity ==
    [][/\ \A v \in Variants, field \in FieldContents :
            (~isUpdating /\ HandleAddToCart(v, field)) =>
               Sent("add", v, FieldInteger(field))
       /\ \A k \in Keys, text \in FieldTexts :
            (~isUpdating /\ QuantityInputChange(k, text)) =>
               IF ParseInt(text) # NaN /\ ParseInt(text) >= 0
               THEN Sent("change", k, ParseInt(text))
               ELSE net' = net /\ isUpdating' = isUpdating]_vars

(***************************************************************************)
(* C21.  A step that takes the drawer from Open to Closed leaves the       *)
(* requests in flight, the request-in-flight flag and the loading          *)
(* indicator as they are.  A successful response delivered while the       *)
(* drawer is Closed is rendered all the same (the badges show its          *)
(* item_count) and the event of the operation is dispatched: cart:updated  *)
(* for updateItem, item-added for addItem, none for fetchCart; after the   *)
(* response of updateItem or fetchCart the drawer is still Closed.         *)
(***************************************************************************)
RenderedFrom(i) ==
    /\ rendered' = RenderCart(net[i].cart[2])
    /\ rendered'.count = ToString(net[i].cart[2].item_count)

C21_CloseKeepsRequests ==
    [][/\ (isOpen /\ ~isOpen') =>
             (net' = net /\ isUpdating' = isUpdating /\ loading' = loading)
       /\ Close => (net' = net /\ isUpdating' = isUpdating /\ loading' = loading)
       /\ \A i \in Slots :
             /\ (~isOpen /\ net[i].out = "ok" /\ UpdateItemResumes(i)) =>
                   /\ RenderedFrom(i)
                   /\ Len(step'.events) = 1
                   /\ step'.events[1].type = "cart:updated"
                   /\ step'.events[1].cart = net[i].cart
                   /\ ~isOpen'
             /\ (~isOpen /\ net[i].out = "ok" /\ FetchCartResumes(i)) =>
                   /\ RenderedFrom(i)
                   /\ ~isOpen'
             /\ (~isOpen /\ net[i].out = "ok" /\ AddItemFetched(i)) =>
                   /\ RenderedFrom(i)
                   /\ Len(step'.events) = 1
                   /\ step'.events[1].type = "cart:item-added"]_vars

\* The drawer was opened at the largest offset and closed again, and the
\* response of an updateItem has just been rendered behind the closed drawer.
C21_Witness ==
    /\ ~isOpen
    /\ scrollPosition = MaxScroll
    /\ bodyStyle = Unpinned
    /\ Len(step.events) = 1
    /\ step.events[1].type = "cart:updated"
    /\ ~step.events[1].open
    /\ ~isUpdating

(***************************************************************************)
(* C22.  On a page that has the drawer, in every state between two events  *)
(* the loading indicator of the drawer is on exactly when the              *)
(* request-in-flight flag is set: the two are switched on in the same      *)
(* step when a mutating call is accepted and off in the same step when     *)
(* it completes.                                                           *)
(***************************************************************************)
C22_LoadingInLockstep == drawer # "absent" => (loading <=> isUpdating)

\* A mutating call has failed and completed (its toast is in the document)
\* and the next one has been accepted: flag and indicator are on again.
C22_Witness ==
    /\ drawer # "absent"
    /\ isUpdating /\ loading
    /\ \E t \in ToastSlots : toasts[t] # "none"

(***************************************************************************)
(* C23.  In every state where the drawer is Open, a Tab or Shift+Tab       *)
(* keypress leaves the focus inside the drawer (on one of its focusable    *)
(* elements, or on the drawer itself when it has none), wherever the       *)
(* focus was: also after a re-render that replaced the items list and      *)
(* removed the element that had the focus.                                 *)
(***************************************************************************)
TabPressed ==
    \/ TabKey(FALSE) \/ TabKey(TRUE)
    \/ TabKeyOutside(FALSE) \/ TabKeyOutside(TRUE)

C23_TabStaysInDrawer ==
    [][(isOpen /\ TabPressed) => InDrawer(activeElement', Focusable)]_vars

(***************************************************************************)
(* C24.  Every item-added event carries the resulting cart: a Cart the     *)
(* follow-up fetch returned, which the panel shows when the event is       *)
(* dispatched, never null.  And addItem settles to null only in a step     *)
(* that showed an error toast and left the drawer's state as it was.       *)
(***************************************************************************)
C24_ItemAddedCarriesCart ==
    [][/\ \A n \in 1..Len(step'.events) :
             step'.events[n].type = "cart:item-added" =>
                /\ step'.events[n].cart[1] = "cart"
                /\ step'.events[n].panel = RenderCart(step'.events[n].cart[2])
       /\ \A i \in Slots :
             ((AddItemResumes(i) \/ AddItemFetched(i)) /\ step'.ret = JNull) =>
                /\ Len(step'.toasts) = 1
                /\ UNCHANGED uiVars]_vars

(***************************************************************************)
(* C25.  On a page that has the drawer: whenever the drawer goes from      *)
(* Open to Closed the page is scrolled back to the offset it had when the  *)
(* drawer last went from Closed to Open, also when open() was called       *)
(* again on the Open drawer in between (as a successful addItem does);     *)
(* the window reports the offset 0 while the body is pinned.  And close()  *)
(* on a Closed drawer leaves the page at its offset.                       *)
(***************************************************************************)
C25_ScrollBackToOpeningOffset ==
    [][drawer # "absent" =>
          /\ (isOpen /\ ~isOpen') => scrollY' = offsetAtOpening
          /\ (~isOpen /\ Close) => scrollY' = scrollY]_vars

(***************************************************************************)
(* C26.  With every response a success and no one else changing the cart:  *)
(* whenever no request is outstanding, the panel shows the cart the        *)
(* boundary holds, whatever the interleaving of the fetches (the           *)
(* constructor's, the refreshes, the follow-up of addItem) with the        *)
(* mutating calls and whatever the order the responses arrive in.          *)
(***************************************************************************)
C26_RenderedIsServerCart ==
    (\A i \in Slots : net[i] = NoReq) =>
       /\ lastCart = JCart(CartJson(server))
       /\ rendered = RenderCart(CartJson(server))

(***************************************************************************)
(* C27.  fetchCart is outside the guard of the mutating calls.  A fetch    *)
(* (the constructor's, or one answering cart:refresh) is issued whether    *)
(* or not a mutating call is outstanding: its request goes out whenever    *)
(* the boundary takes one more.  Neither the call nor the code that        *)
(* resumes on its response, success or failure, changes the                *)
(* request-in-flight flag, the loading indicator or the drawer's open      *)
(* state.                                                                  *)
(***************************************************************************)
C27_FetchCartOutsideGuard ==
    /\ [](FreeSlots # {} => ENABLED FetchCart)
    /\ [][/\ FetchCart =>
                /\ net'[FirstFree] = Req("get", "fetchCart", "", 0)
                /\ UNCHANGED <<isUpdating, loading, isOpen>>
          /\ \A i \in Slots :
                FetchCartResumes(i) => UNCHANGED <<isUpdating, loading, isOpen>>]_vars

\* A fetch has just failed while a mutating call is outstanding and the
\* drawer is Open: flag, indicator and open state are as they were.
C27_Witness ==
    /\ isUpdating /\ loading /\ isOpen
    /\ step = Gave(JNull, <<>>, <<>>)
    /\ \E i \in Slots : IsMutating(net[i])

====
